---- MODULE Spec2Model ----
(***************************************************************************)
(* Job Market Explorer (src/app.py): the dataset loader, the filter        *)
(* engine fast_filter, the render pass of main() and the trend             *)
(* aggregation, as a state machine.                                        *)
(*                                                                         *)
(* Representation.                                                         *)
(*  - A text value is a tuple of one-character strings.                    *)
(*  - A nullable cell is <<>> (NaN / NaT) or <<v>>.                        *)
(*  - A timestamp is a number of hours since 2024-01-01 00:00; a date      *)
(*    (datetime.date, as the date widget returns it) is a day number       *)
(*    since 2024-01-01.                                                    *)
(*  - hourly_avg is kept in half dollars (hourly_low + hourly_high), so    *)
(*    that the division by 2 of line 62 loses nothing; a mean of the       *)
(*    trend is the pair <<sum of half dollars, number of rows>>.           *)
(***************************************************************************)
EXTENDS Integers, Sequences, FiniteSets, TLC

(* ------------------------------ bounds -------------------------------- *)

\* Largest number of rows of the CSV file.
MaxRows == 2

\* Largest number of user interactions (script reruns) after the first run.
MaxInteractions == 3

(* ------------------------------- cells -------------------------------- *)

NaN == <<>>

Some(v) == <<v>>

notna(x) == x # NaN

Val(x) == x[1]

(* ------------------------------- text --------------------------------- *)

\* str.lower on one character.
LowerChar(c) ==
  CASE c = "R" -> "r" [] c = "Q" -> "q" [] c = "A" -> "a" [] c = "S" -> "s"
    [] c = "D" -> "d" [] c = "N" -> "n" [] c = "U" -> "u" [] c = "L" -> "l"
    [] OTHER -> c

\* str.lower
Lower(s) == [i \in DOMAIN s |-> LowerChar(s[i])]

\* \s of the regular expressions of lines 69-70, and what str.strip strips.
IsSpace(c) == c = " "

\* \w of the regular expression of line 69: the characters of the model's
\* texts are letters, digits, the blank and the punctuation below.
IsWord(c) == ~IsSpace(c) /\ c \notin {".", "+", "(", "/", "-"}

\* .str.replace(r'[^\w\s]', ' ', regex=True)
ReplacePunct(s) ==
  [i \in DOMAIN s |-> IF IsWord(s[i]) \/ IsSpace(s[i]) THEN s[i] ELSE " "]

\* .str.replace(r'\s+', ' ', regex=True): every run of blanks becomes one.
RECURSIVE CollapseSpaces(_)
CollapseSpaces(s) ==
  IF Len(s) = 0 THEN <<>>
  ELSE IF IsSpace(s[1])
       THEN IF Len(s) > 1 /\ IsSpace(s[2])
            THEN CollapseSpaces(Tail(s))
            ELSE <<" ">> \o CollapseSpaces(Tail(s))
       ELSE <<s[1]>> \o CollapseSpaces(Tail(s))

RECURSIVE LStrip(_)
LStrip(s) == IF Len(s) > 0 /\ IsSpace(s[1]) THEN LStrip(Tail(s)) ELSE s

RECURSIVE RStrip(_)
RStrip(s) ==
  IF Len(s) > 0 /\ IsSpace(s[Len(s)]) THEN RStrip(SubSeq(s, 1, Len(s) - 1)) ELSE s

\* str.strip
Strip(s) == LStrip(RStrip(s))

(* ------------------- regular expressions (module re) ------------------ *)
(* The patterns that reach str.contains are texts over letters, the blank, *)
(* "." and "(".  On that alphabet Python's re behaves as follows: a        *)
(* pattern holding "(" does not compile (re.error: missing ), unterminated *)
(* subpattern), since no ")" can close it; "." matches any character; any  *)
(* other character matches itself, letters regardless of case under        *)
(* re.IGNORECASE (case=False).                                             *)

ReCompileError(pat) == \E i \in DOMAIN pat : pat[i] = "("

ReCharMatch(p, c) == IF p = "." THEN TRUE ELSE LowerChar(p) = LowerChar(c)

\* re.compile(pat, re.IGNORECASE).search(s) is not None, for a pattern that
\* compiles.
ReSearch(pat, s) ==
  \E i \in 0..(Len(s) - Len(pat)) :
    \A j \in 1..Len(pat) : ReCharMatch(pat[j], s[i + j])

\* Series.str.contains(pat, case=False, na=False) on one cell: regex=True is
\* the default, so pat is a regular expression; a NaN cell gives na = False.
StrContains(cell, pat) == notna(cell) /\ ReSearch(pat, Val(cell))

(* ------------------------------ numbers ------------------------------- *)

Digits == {"0", "1", "2", "3", "4", "5", "6", "7", "8", "9"}

DigitVal(c) ==
  CASE c = "0" -> 0 [] c = "1" -> 1 [] c = "2" -> 2 [] c = "3" -> 3
    [] c = "4" -> 4 [] c = "5" -> 5 [] c = "6" -> 6 [] c = "7" -> 7
    [] c = "8" -> 8 [] c = "9" -> 9

DigitChar(n) ==
  CASE n = 0 -> "0" [] n = 1 -> "1" [] n = 2 -> "2" [] n = 3 -> "3"
    [] n = 4 -> "4" [] n = 5 -> "5" [] n = 6 -> "6" [] n = 7 -> "7"
    [] n = 8 -> "8" [] n = 9 -> "9"

RECURSIVE DecimalVal(_)
DecimalVal(s) ==
  IF Len(s) = 0 THEN 0
  ELSE 10 * DecimalVal(SubSeq(s, 1, Len(s) - 1)) + DigitVal(s[Len(s)])

\* pd.to_numeric(cell, errors='coerce') on one CSV cell: an empty cell and a
\* cell that is no number both become NaN (the model's numeric cells are
\* unsigned decimal integers).
to_numeric(cell) ==
  IF Len(cell) > 0 /\ \A i \in DOMAIN cell : cell[i] \in Digits
  THEN Some(DecimalVal(cell))
  ELSE NaN

(* ------------------------------- dates -------------------------------- *)
(* The text of a published_date cell is modelled by its fields               *)
(* <<year, month, day, hour>>; <<>> is the empty cell.  All dates of the     *)
(* model lie in 2024, the year of the dataset (line 54).                     *)

\* Days of 2024 before the first of month m.
DaysBefore(m) ==
  CASE m = 1 -> 0 [] m = 2 -> 31 [] m = 3 -> 60 [] m = 4 -> 91 [] m = 5 -> 121
    [] m = 6 -> 152 [] m = 7 -> 182 [] m = 8 -> 213 [] m = 9 -> 244
    [] m = 10 -> 274 [] m = 11 -> 305 [] m = 12 -> 335 [] m = 13 -> 366

ValidDate(f) ==
  /\ Len(f) = 4
  /\ f[1] = 2024
  /\ f[2] \in 1..12
  /\ f[3] \in 1..(DaysBefore(f[2] + 1) - DaysBefore(f[2]))
  /\ f[4] \in 0..23

\* Day number of the date month/day of 2024.
DayNumber(m, d) == DaysBefore(m) + d - 1

\* pd.to_datetime(cell, errors='coerce') on one CSV cell: a timestamp, or
\* NaT for an empty or unparsable cell.
to_datetime_coerce(f) ==
  IF ValidDate(f) THEN Some(DayNumber(f[2], f[3]) * 24 + f[4]) ELSE NaN

\* pd.to_datetime(d) of a datetime.date: midnight of that day.
to_datetime_date(d) == d * 24

MonthOf(ts) == CHOOSE m \in 1..12 : DaysBefore(m) * 24 <= ts /\ ts < DaysBefore(m + 1) * 24

DayOfMonth(ts) == (ts \div 24) - DaysBefore(MonthOf(ts)) + 1

TwoDigits(n) == <<DigitChar(n \div 10), DigitChar(n % 10)>>

NaTText == <<"N", "a", "T">>

\* .dt.to_period('M').astype(str) on one cell: "YYYY-MM", and the text "NaT"
\* for NaT: astype(str) formats the missing period, it does not keep it
\* missing.
PeriodMonthStr(cell) ==
  IF notna(cell)
  THEN <<"2", "0", "2", "4", "-">> \o TwoDigits(MonthOf(Val(cell)))
  ELSE NaTText

\* Timestamp.strftime('%Y-%m-%d'); NaT.strftime raises ValueError.
strftime(ts) ==
  <<"2", "0", "2", "4", "-">> \o TwoDigits(MonthOf(ts)) \o <<"-">>
    \o TwoDigits(DayOfMonth(ts))

(* ------------------------------ the CSV ------------------------------- *)
(* The records the CSV file may hold.  Every cell is the text of the cell  *)
(* (<<>> for an empty cell); a published_date cell is given by its fields. *)

CsvRecords ==
  { [title |-> <<"R", "e", "m", "o", "t", "e", " ", "Q", "A">>, country |-> <<"N", "i", "g", "e", "r", "i", "a">>,
     published_date |-> <<2024, 2, 15, 10>>,
     hourly_low |-> <<"2", "0">>, hourly_high |-> <<"3", "0">>, budget |-> <<>>],
    [title |-> <<"S", "r", ".", " ", "Q", "A">>, country |-> <<"N", "i", "g", "e", "r">>,
     published_date |-> <<2024, 2, 29, 9>>,
     hourly_low |-> <<"1", "9">>, hourly_high |-> <<"2", "0">>, budget |-> <<>>],
    [title |-> <<>>, country |-> <<>>,
     published_date |-> <<2024, 3, 1, 0>>,
     hourly_low |-> <<>>, hourly_high |-> <<>>, budget |-> <<"5", "0", "0">>],
    [title |-> <<"Q", "A", " ", "L", "e", "a", "d">>, country |-> <<"N", "i", "g", "e", "r">>,
     published_date |-> <<2024, 2, 30, 0>>,
     hourly_low |-> <<"2", "5">>, hourly_high |-> <<"n", "/", "a">>, budget |-> <<"1", "0", "0">>],
    [title |-> <<"D", "e", "v">>, country |-> <<"N", "i", "g", "e", "r", "i", "a">>,
     published_date |-> <<2024, 2, 29, 0>>,
     hourly_low |-> <<"3", "0">>, hourly_high |-> <<"5", "0">>, budget |-> <<"3", "0", "0">>] }

RECURSIVE SeqsUpTo(_, _)
SeqsUpTo(S, n) ==
  IF n = 0 THEN {<<>>}
  ELSE LET shorter == SeqsUpTo(S, n - 1)
       IN  shorter \cup {Append(t, x) : t \in {u \in shorter : Len(u) = n - 1}, x \in S}

\* The contents the CSV file may have.
CsvFiles == SeqsUpTo(CsvRecords, MaxRows)

(* ----------------------------- load_data ------------------------------ *)

\* pd.read_csv on a text cell: an empty cell is NaN.
read_cell(cell) == IF Len(cell) = 0 THEN NaN ELSE Some(cell)

\* .fillna(v) on one cell
fillna(cell, v) == IF notna(cell) THEN cell ELSE Some(v)

UnknownText == <<"U", "n", "k", "n", "o", "w", "n">>

\* Lines 65-72: the clean_title of one title cell.
clean_title_of(title) ==
  Some(Strip(CollapseSpaces(ReplacePunct(Lower(Val(fillna(title, <<>>)))))))

\* Line 62: (hourly_low + hourly_high) / 2, NaN when either is NaN; in half
\* dollars.
hourly_avg_of(low, high) ==
  IF notna(low) /\ notna(high) THEN Some(Val(low) + Val(high)) ELSE NaN

\* Lines 57-73 on one record.  Line 57 (fillna with inplace=True on the
\* column) is taken to fill the column of df, as it does without
\* copy-on-write.
load_row(rec) ==
  LET published_date == to_datetime_coerce(rec.published_date)
      hourly_low == to_numeric(rec.hourly_low)
      hourly_high == to_numeric(rec.hourly_high)
      title == read_cell(rec.title)
  IN  [title |-> title,
       country |-> fillna(read_cell(rec.country), UnknownText),
       published_date |-> published_date,
       hourly_low |-> hourly_low,
       hourly_high |-> hourly_high,
       budget |-> to_numeric(rec.budget),
       hourly_avg |-> hourly_avg_of(hourly_low, hourly_high),
       clean_title |-> clean_title_of(title),
       published_month |-> PeriodMonthStr(published_date)]

\* load_data: the canonical table of a CSV file.
load_data(csv) == [i \in DOMAIN csv |-> load_row(csv[i])]

(* ----------------------------- fast_filter ---------------------------- *)

AllText == <<"A", "l", "l">>

RemoteText == <<"r", "e", "m", "o", "t", "e">>

\* Line 83.
CountryActive(country) == country # AllText

\* Line 91 with the test written >= 0.
MinSalaryActiveAtZero(min_salary) == min_salary >= 0

\* Line 91.
MinSalaryActive(min_salary) == min_salary > 0

\* Line 97.
KeywordActive(search_keyword) == Strip(search_keyword) # <<>>

\* Line 106: date_range and len(date_range) == 2.
DateRangeActive(date_range) == Len(date_range) = 2

\* Line 92 on one row with a NaN hourly_avg passing the comparison.
MinSalaryTestNaNPasses(row, min_salary) ==
  ~notna(row.hourly_avg) \/ Val(row.hourly_avg) >= 2 * min_salary

\* Line 92 on one row: hourly_avg >= @min_salary; a comparison with NaN is
\* False.  hourly_avg is in half dollars.
MinSalaryTest(row, min_salary) ==
  notna(row.hourly_avg) /\ Val(row.hourly_avg) >= 2 * min_salary

\* Lines 83-98 on one row: the conjunction query_str of the active
\* conditions.
QueryTest(row, country, job_type, min_salary, search_remote, search_keyword) ==
  /\ CountryActive(country) => StrContains(row.country, country)
  /\ job_type = "Hourly" => notna(row.hourly_avg)
  /\ job_type = "Fixed / Permanent" => notna(row.budget)
  /\ MinSalaryActive(min_salary) => MinSalaryTest(row, min_salary)
  /\ search_remote => StrContains(row.clean_title, RemoteText)
  /\ KeywordActive(search_keyword) => StrContains(row.clean_title, search_keyword)

\* Lines 107-108 on one row: a comparison with NaT is False.
DateTest(row, date_range) ==
  /\ notna(row.published_date)
  /\ Val(row.published_date) >= to_datetime_date(date_range[1])
  /\ Val(row.published_date) <= to_datetime_date(date_range[2])

\* fast_filter raises re.error when a pattern handed to str.contains does not
\* compile; the pattern is compiled whatever the rows are.
fast_filter_raises(country, search_keyword) ==
  \/ CountryActive(country) /\ ReCompileError(country)
  \/ KeywordActive(search_keyword) /\ ReCompileError(search_keyword)

\* fast_filter (lines 80-110), when it does not raise.
fast_filter(df, country, job_type, min_salary, search_remote, date_range, search_keyword) ==
  LET queried ==
        SelectSeq(df, LAMBDA row :
          QueryTest(row, country, job_type, min_salary, search_remote, search_keyword))
  IN  IF DateRangeActive(date_range)
      THEN SelectSeq(queried, LAMBDA row : DateTest(row, date_range))
      ELSE queried

(* ------------------------- the trend aggregation ---------------------- *)

\* ord() of the characters of a published_month text.
Ord(c) ==
  CASE c \in Digits -> 48 + DigitVal(c)
    [] c = "-" -> 45 [] c = "N" -> 78 [] c = "T" -> 84 [] c = "a" -> 97

\* s < t for Python strings.
RECURSIVE StrLess(_, _)
StrLess(s, t) ==
  IF Len(t) = 0 THEN FALSE
  ELSE IF Len(s) = 0 THEN TRUE
  ELSE IF s[1] = t[1] THEN StrLess(Tail(s), Tail(t))
  ELSE Ord(s[1]) < Ord(t[1])

\* The texts of S in ascending order.
RECURSIVE SortedTexts(_)
SortedTexts(S) ==
  IF S = {} THEN <<>>
  ELSE LET least == CHOOSE x \in S : \A y \in S \ {x} : StrLess(x, y)
       IN  <<least>> \o SortedTexts(S \ {least})

\* The rows of df whose published_month is key: one group of the groupby.
Group(df, key) == SelectSeq(df, LAMBDA row : row.published_month = key)

RECURSIVE SumSeq(_)
SumSeq(s) == IF Len(s) = 0 THEN 0 ELSE s[1] + SumSeq(Tail(s))

\* 'count' of a column: the cells of the group that are not NaN.
agg_count(cells) == Len(SelectSeq(cells, LAMBDA c : notna(c)))

\* 'mean' of a column: over the cells that are not NaN; NaN when there is
\* none.  The value is <<sum, n>>: sum half dollars over n rows.
agg_mean(cells) ==
  LET defined == SelectSeq(cells, LAMBDA c : notna(c))
  IN  IF Len(defined) = 0 THEN NaN
      ELSE Some(<<SumSeq([i \in DOMAIN defined |-> Val(defined[i])]), Len(defined)>>)

\* Line 175: df.groupby('published_month').agg({'title': 'count',
\* 'hourly_avg': 'mean'}).reset_index(): one row per value of
\* published_month (a text, never NaN: see PeriodMonthStr), keys ascending.
groupby_agg(df) ==
  LET keys == SortedTexts({df[i].published_month : i \in DOMAIN df})
  IN  [k \in DOMAIN keys |->
        LET g == Group(df, keys[k])
        IN  [published_month |-> keys[k],
             title |-> agg_count([i \in DOMAIN g |-> g[i].title]),
             hourly_avg |-> agg_mean([i \in DOMAIN g |-> g[i].hourly_avg])]]

\* Line 175 with the trend computed from the rows on display.
trend_frame_filtered(df, filtered_jobs) == filtered_jobs

\* Line 175: the frame the trend is computed from is df, not filtered_jobs.
trend_frame(df, filtered_jobs) == df

(* --------------------------- the render pass -------------------------- *)

\* Line 154: filtered_jobs.head(100).  The tables of the model are shorter
\* than the cap, so head keeps every row of them.
DisplayCap == 100

head(t, n) == SubSeq(t, 1, IF Len(t) < n THEN Len(t) ELSE n)

\* str.replace(' ', '-')
replace_spaces(s) == [i \in DOMAIN s |-> IF s[i] = " " THEN "-" ELSE s[i]]

\* The exception lines 155-169 raise on one row, "" when there is none:
\* title NaN is a float, which has no replace (line 155); NaT has no
\* strftime (line 161).
card_error(job) ==
  IF ~notna(job.title) THEN "AttributeError"
  ELSE IF ~notna(job.published_date) THEN "ValueError"
  ELSE ""

\* Lines 155-169: the card of one row that raises nothing.
card(job) ==
  [title |-> Val(job.title),
   link |-> replace_spaces(Val(job.title)),
   country |-> Val(job.country),
   date |-> strftime(Val(job.published_date)),
   salary |-> IF notna(job.hourly_avg)
              THEN [unit |-> "/hr", amount |-> job.hourly_avg]
              ELSE [unit |-> " budget", amount |-> job.budget]]

\* The cards rendered before the first row that raises.
RECURSIVE cards_of(_)
cards_of(rows) ==
  IF Len(rows) = 0 \/ card_error(rows[1]) # "" THEN <<>>
  ELSE <<card(rows[1])>> \o cards_of(Tail(rows))

\* The exception of the first row that raises, "" when none does.
RECURSIVE cards_error(_)
cards_error(rows) ==
  IF Len(rows) = 0 THEN ""
  ELSE IF card_error(rows[1]) # "" THEN card_error(rows[1])
  ELSE cards_error(Tail(rows))

\* One run of main() (lines 116-190) on the widget values w, show_btn
\* telling whether the run was triggered by the button.
RenderPass(df, w, show_btn) ==
  IF show_btn /\ fast_filter_raises(w.country, w.search_keyword)
  THEN [raised |-> "re.error", filtered_jobs |-> NaN, cards |-> <<>>,
        trend_data |-> NaN]
  ELSE
    LET filtered_jobs ==
          IF show_btn
          THEN fast_filter(df, w.country, w.job_type, w.min_salary,
                           w.search_remote, w.date_range, w.search_keyword)
          ELSE df
        visible == head(filtered_jobs, DisplayCap)
        err == cards_error(visible)
    IN  [raised |-> err,
         filtered_jobs |-> Some(filtered_jobs),
         cards |-> cards_of(visible),
         trend_data |-> IF err = "" THEN Some(groupby_agg(trend_frame(df, filtered_jobs)))
                        ELSE NaN]

(* ------------------------------ widgets ------------------------------- *)

\* Line 125: the options of the country box.
CountryOptions(df) == {AllText} \cup {Val(df[i].country) : i \in DOMAIN df}

\* Line 127.
JobTypes == {"All", "Hourly", "Fixed / Permanent"}

\* Line 128: the slider's initial value.
SliderDefault == 20

\* Line 128: values of the slider (0..200) the model moves it to.
SliderValues == {0, SliderDefault, 25}

\* Line 130: values of the date box: nothing, one date, two dates.
DateRanges ==
  { <<>>, <<DayNumber(2, 1)>>, <<DayNumber(2, 1), DayNumber(2, 29)>>,
    <<DayNumber(2, 29), DayNumber(2, 29)>> }

\* Line 131: texts typed into the keyword box.
Keywords == { <<>>, <<" ">>, <<"q", "a">>, <<" ", "Q", "A">>, <<".">>, <<"(">> }

\* Lines 126-131: the widgets' values on the first run.
DefaultWidgets ==
  [country |-> AllText, job_type |-> "All", min_salary |-> SliderDefault,
   search_remote |-> FALSE, date_range |-> <<>>, search_keyword |-> <<>>]

(* ------------------------------- state -------------------------------- *)

VARIABLES
  df,            \* the canonical table load_data returns (cached, line 52)
  w,             \* the widgets' values (lines 126-131)
  show_btn,      \* line 133: whether this run was triggered by the button
  page,          \* what the latest run of main() produced (RenderPass)
  interactions,  \* number of reruns so far
  last_press,    \* history: the widgets' values at the latest press, or NaN
  first_trend,   \* history: trend_data of the first run that reached line 175
  pc,            \* direct calls of fast_filter: "idle", "called", "again"
  args,          \* direct calls: the arguments of the call
  out,           \* direct calls: the outcome of the call
  out2           \* direct calls: the outcome of the same call made again

vars ==
  <<df, w, show_btn, page, interactions, last_press, first_trend, pc, args, out, out2>>

\* The state after load_data() and the first run of main(): no widget has
\* been touched and the button reads False.
Init ==
  /\ df \in {load_data(csv) : csv \in CsvFiles}
  /\ w = DefaultWidgets
  /\ show_btn = FALSE
  /\ page = RenderPass(df, w, FALSE)
  /\ interactions = 0
  /\ last_press = NaN
  /\ first_trend = page.trend_data
  /\ pc = "idle"
  /\ args = DefaultWidgets
  /\ out = NaN
  /\ out2 = NaN

(* --------------------------- user interactions ------------------------ *)

\* Streamlit reruns the script from the top on every interaction; load_data
\* is cached, so df is the same table; st.button returns True only in the
\* run its click triggered.
Rerun(w2, btn) ==
  /\ interactions < MaxInteractions
  /\ w' = w2
  /\ show_btn' = btn
  /\ page' = RenderPass(df, w2, btn)
  /\ interactions' = interactions + 1
  /\ last_press' = IF btn THEN Some(w2) ELSE last_press
  /\ first_trend' = IF notna(first_trend) THEN first_trend ELSE page'.trend_data
  /\ UNCHANGED <<df, pc, args, out, out2>>

\* Line 126.
SetCountry(c) ==
  /\ c # w.country
  /\ Rerun([w EXCEPT !.country = c], FALSE)

\* Line 127.
SetJobType(j) ==
  /\ j # w.job_type
  /\ Rerun([w EXCEPT !.job_type = j], FALSE)

\* Line 128.
SetMinSalary(m) ==
  /\ m # w.min_salary
  /\ Rerun([w EXCEPT !.min_salary = m], FALSE)

\* Line 129.
ToggleRemote == Rerun([w EXCEPT !.search_remote = ~w.search_remote], FALSE)

\* Line 130.
SetDateRange(d) ==
  /\ d # w.date_range
  /\ Rerun([w EXCEPT !.date_range = d], FALSE)

\* Line 131.
SetKeyword(k) ==
  /\ k # w.search_keyword
  /\ Rerun([w EXCEPT !.search_keyword = k], FALSE)

\* Line 133: the button "Show Jobs" is pressed.
PressShowJobs == Rerun(w, TRUE)

Next ==
  \/ \E c \in CountryOptions(df) : SetCountry(c)
  \/ \E j \in JobTypes : SetJobType(j)
  \/ \E m \in SliderValues : SetMinSalary(m)
  \/ ToggleRemote
  \/ \E d \in DateRanges : SetDateRange(d)
  \/ \E k \in Keywords : SetKeyword(k)
  \/ PressShowJobs

Spec == Init /\ [][Next]_vars

(* ----------------------- direct calls of fast_filter ------------------ *)

\* The arguments fast_filter can be called with on df.
Criteria(table) ==
  [country : CountryOptions(table), job_type : JobTypes, min_salary : SliderValues,
   search_remote : BOOLEAN, date_range : DateRanges, search_keyword : Keywords]

\* The outcome of fast_filter(table, a...): the exception it raises or the
\* table it returns.
Outcome(table, a) ==
  IF fast_filter_raises(a.country, a.search_keyword)
  THEN [raised |-> "re.error", rows |-> <<>>]
  ELSE [raised |-> "",
        rows |-> fast_filter(table, a.country, a.job_type, a.min_salary,
                             a.search_remote, a.date_range, a.search_keyword)]

FilterCall(a) ==
  /\ pc = "idle"
  /\ pc' = "called"
  /\ args' = a
  /\ out' = Some(Outcome(df, a))
  /\ UNCHANGED <<df, out2, w, show_btn, page, interactions, last_press, first_trend>>

FilterAgain ==
  /\ pc = "called"
  /\ pc' = "again"
  /\ out2' = Some(Outcome(df, args))
  /\ UNCHANGED <<df, args, out, w, show_btn, page, interactions, last_press, first_trend>>

NextFilter ==
  \/ \E a \in Criteria(df) : FilterCall(a)
  \/ FilterAgain

SpecFilter == Init /\ [][NextFilter]_vars

(* ===================== the statements checked ========================= *)

\* s is an order-preserving subsequence of t.
RECURSIVE IsSubseq(_, _)
IsSubseq(s, t) ==
  IF Len(s) = 0 THEN TRUE
  ELSE IF Len(t) = 0 THEN FALSE
  ELSE IF s[1] = t[1] THEN IsSubseq(Tail(s), Tail(t))
  ELSE IsSubseq(s, Tail(t))

\* sub occurs in s as a literal substring.
LiteralContains(sub, s) ==
  \E i \in 0..(Len(s) - Len(sub)) : SubSeq(s, i + 1, i + Len(sub)) = sub

\* The calendar day (day number) of a timestamp.
DayOf(ts) == ts \div 24

\* Every criterion at its neutral value.
Neutral(a) ==
  /\ a.country = AllText
  /\ a.job_type = "All"
  /\ a.min_salary = 0
  /\ ~a.search_remote
  /\ a.date_range = <<>>
  /\ a.search_keyword = <<>>

\* The constraints of the filter's contract re-checked on one row: country
\* as a case-insensitive substring, job type, minimum rate, remote-only,
\* keyword as a literal substring of cleanTitle, date range by calendar day.
\* A keyword of blanks only is taken as no constraint here.
RowSatisfies(row, a) ==
  /\ a.country # AllText =>
       LiteralContains(Lower(a.country), Lower(Val(row.country)))
  /\ a.job_type = "Hourly" => notna(row.hourly_avg)
  /\ a.job_type = "Fixed / Permanent" => notna(row.budget)
  /\ a.min_salary > 0 =>
       notna(row.hourly_avg) /\ Val(row.hourly_avg) >= 2 * a.min_salary
  /\ a.search_remote => LiteralContains(RemoteText, Val(row.clean_title))
  /\ Strip(a.search_keyword) # <<>> =>
       LiteralContains(Lower(a.search_keyword), Val(row.clean_title))
  /\ Len(a.date_range) = 2 =>
       /\ notna(row.published_date)
       /\ DayOf(Val(row.published_date)) \in a.date_range[1]..a.date_range[2]

\* C1: whenever fast_filter returns, its result is an order-preserving
\* subsequence of the input rows and every returned row satisfies every
\* active constraint re-checked on that row.
C1_SubsequenceAndSatisfies ==
  (pc # "idle" /\ Val(out).raised = "") =>
    /\ IsSubseq(Val(out).rows, df)
    /\ Len(Val(out).rows) <= Len(df)
    /\ \A i \in DOMAIN Val(out).rows : RowSatisfies(Val(out).rows[i], args)

\* The criteria a with the date range left out.
WithoutDates(a) == [a EXCEPT !.date_range = <<>>]

\* C4: with a non-empty keyword and every other constraint inactive,
\* fast_filter raises nothing and keeps exactly the rows whose cleanTitle
\* contains the lowercased keyword as a literal substring.
C4_KeywordLiteralSubstring ==
  (pc # "idle" /\ args.search_keyword # <<>>
     /\ Neutral([args EXCEPT !.search_keyword = <<>>])) =>
    /\ Val(out).raised = ""
    /\ Val(out).rows =
         SelectSeq(df, LAMBDA row :
           LiteralContains(Lower(args.search_keyword), Val(row.clean_title)))

\* C5: with both ends of the date range supplied, fast_filter keeps exactly
\* the rows passing the other constraints that were published on a day of
\* [start, end], the start day and the end day included; with fewer than two
\* ends the date constraint is not applied.
C5_DateRangeInclusive ==
  (pc # "idle" /\ Val(out).raised = "") =>
    LET others == Outcome(df, WithoutDates(args)).rows
    IN  IF Len(args.date_range) = 2
        THEN Val(out).rows =
               SelectSeq(others, LAMBDA row :
                 /\ notna(row.published_date)
                 /\ DayOf(Val(row.published_date))
                      \in args.date_range[1]..args.date_range[2])
        ELSE Val(out).rows = others

\* C6: fast_filter with every criterion at its neutral value returns the
\* input table, same rows in the same order; the same call made again gives
\* the same outcome, and no call changes the table.
C6_NeutralIsIdentity ==
  /\ [](/\ (pc # "idle" /\ Neutral(args)) => out = Some([raised |-> "", rows |-> df])
        /\ pc = "again" => out2 = out)
  /\ [][df' = df]_vars

\* C6 witness: the neutral call was made twice on a table of two rows and
\* returned the two rows.
C6_Witness ==
  /\ pc = "again"
  /\ Neutral(args)
  /\ Len(df) >= 2
  /\ Val(out2).rows = df
  /\ \E i \in DOMAIN df : ~notna(df[i].hourly_avg)

\* The rows fast_filter returns for the widget values a.
FilterRows(a) ==
  fast_filter(df, a.country, a.job_type, a.min_salary, a.search_remote,
              a.date_range, a.search_keyword)

\* C2: once the button has been pressed, every later run shows the filter
\* result for the criteria of the latest press, capped to its first 100
\* rows, whether or not the run itself was a press; the unfiltered table is
\* shown only while the button has never been pressed.  (Runs that end in an
\* exception are left out.)
C2_ShowsLatestPress ==
  page.raised = "" =>
    IF notna(last_press)
    THEN ~fast_filter_raises(Val(last_press).country, Val(last_press).search_keyword) =>
           head(Val(page.filtered_jobs), DisplayCap)
             = head(FilterRows(Val(last_press)), DisplayCap)
    ELSE Val(page.filtered_jobs) = df

\* The rows of df whose publishedDate is defined.
Dated(table) == SelectSeq(table, LAMBDA row : notna(row.published_date))

\* C3: the trend has exactly one point per distinct month of the rows whose
\* publishedDate is defined, in ascending month order; a row with absent
\* publishedDate creates no point and adds to no count and no mean.
C3_TrendPointsPerDefinedMonth ==
  notna(page.trend_data) =>
    LET trend == Val(page.trend_data)
        months == {Dated(df)[i].published_month : i \in DOMAIN Dated(df)}
    IN  /\ {trend[k].published_month : k \in DOMAIN trend} = months
        /\ Len(trend) = Cardinality(months)
        /\ \A k \in 1..(Len(trend) - 1) :
             StrLess(trend[k].published_month, trend[k + 1].published_month)
        /\ trend = groupby_agg(Dated(df))

\* C7: the listing count of every trend point is the number of rows of the
\* table whose publishedMonth is that month, whatever their title, rate and
\* budget.
C7_CountIsGroupSize ==
  notna(page.trend_data) =>
    \A k \in DOMAIN Val(page.trend_data) :
      Val(page.trend_data)[k].title
        = Len(Group(df, Val(page.trend_data)[k].published_month))

C9_RenderCompletes ==
  page.raised # "re.error" => (page.raised = "" /\ notna(page.trend_data))

\* C10: the minimum-rate control starts at 20; a press with every control at
\* its initial value shows only rows with hourlyAvg defined and >= 20; and
\* every row kept by job type "Fixed / Permanent" under an active minimum
\* rate has both budget and hourlyAvg defined.
C10_DefaultMinRateIsActive ==
  /\ interactions = 0 => w.min_salary = 20
  /\ (show_btn /\ w = DefaultWidgets) =>
       /\ notna(page.filtered_jobs)
       /\ \A i \in DOMAIN Val(page.filtered_jobs) :
            /\ notna(Val(page.filtered_jobs)[i].hourly_avg)
            /\ Val(Val(page.filtered_jobs)[i].hourly_avg) >= 2 * 20
  /\ (show_btn /\ notna(page.filtered_jobs)
        /\ w.job_type = "Fixed / Permanent" /\ w.min_salary > 0) =>
       \A i \in DOMAIN Val(page.filtered_jobs) :
         /\ notna(Val(page.filtered_jobs)[i].budget)
         /\ notna(Val(page.filtered_jobs)[i].hourly_avg)

\* C10 witness: the first interaction was a press, with no control touched,
\* and the list kept one row of the table and dropped another.
C10_Witness ==
  /\ show_btn
  /\ interactions = 1
  /\ w = DefaultWidgets
  /\ Len(Val(page.filtered_jobs)) >= 1
  /\ Len(Val(page.filtered_jobs)) < Len(df)

====
